---- MODULE Spec2Model ----
(***************************************************************************)
(* Feedly for Obsidian: the "Sync annotated articles" command, its         *)
(* checkpoint (lastSync, continuationTime, continuationToken) and the      *)
(* documents it writes, the "Generate ePub" command and its archive, and   *)
(* the "Delete all Feedly epub files" command.                             *)
(*                                                                         *)
(* The plugin keeps an in-memory record (settings) and the host keeps the  *)
(* persisted record (store).  saveSettings hands the record to the host;   *)
(* an awaited save has landed when the command goes on, a save that is not *)
(* awaited is queued (pending) and lands in a later step of the host.      *)
(* Every await of a command is a point where the service answers, the host *)
(* acts, or the process is stopped.                                        *)
(*                                                                         *)
(* Spec covers the two commands over a journal and an unread stream that   *)
(* stay as they are: the host completes a queued write before the service  *)
(* answers, before a command starts and before the process stops, and the  *)
(* settings tab is closed.  SpecCleanup adds the cleanup command, SpecTab   *)
(* runs the sync command together with the settings tab, SpecCreate runs   *)
(* syncs while annotations are created on the service, SpecLive is Spec    *)
(* under the scheduling of the runtime, and SpecEpub packages every list   *)
(* of generated files.                                                     *)
(***************************************************************************)
EXTENDS Integers, Sequences, FiniteSets, TLC

\* ------------------------------------------------------------------ bounds

\* The page size of the annotation journal.  The code asks for count=100 and
\* compares res.count < 100; the model runs the same comparison on pages of
\* PageSize entries.
PageSize == 2

\* The service holds at most MaxAnn annotations.
MaxAnn == 4

\* At most MaxInvocations commands are started.
MaxInvocations == 2

\* At most MaxInterruptions requests fail or stops of the process happen.
MaxInterruptions == 1

\* At most MaxPages page requests are answered with a page.
MaxPages == 4

\* The page size of the unread stream.  The code asks for count=250 and
\* compares items.length < 250; the model does so on pages of ExportPageSize.
ExportPageSize == 2

\* generateEpub is given at most MaxFiles generated files.
MaxFiles == 6

\* The unread stream holds at most MaxArticles articles.
MaxArticles == 3

\* An export issues at most MaxExportRequests requests.
MaxExportRequests == 4

\* The settings tab is opened or one of its fields edited at most MaxTabSteps
\* times.
MaxTabSteps == 2

\* ------------------------------------------------------- values and records

\* JavaScript's undefined for an optional number or token field; the default
\* parameter syncTime = 0 makes an undefined lastSync query newerThan=0.
Undefined == 0

DefaultFolder == "Feedly Annotations"

DEFAULT_SETTINGS ==
  [userId |-> "", accessToken |-> "", lastSync |-> Undefined,
   continuationTime |-> Undefined, continuationToken |-> Undefined,
   annotationsFolder |-> DefaultFolder]

Min(a, b) == IF a < b THEN a ELSE b

\* --------------------------------------------------------- service content

\* The shapes an annotated entry of the journal can take: a highlight with a
\* line break, a comment, neither, a highlight together with a comment, and a
\* second entry whose title differs from another one only in characters that
\* the file name cannot hold.
Shapes ==
  << [entryId |-> 1, title |-> <<"a", ":", "b">>, hasHighlight |-> TRUE,
      highlightText |-> <<"x", "\n", "y">>, comment |-> <<>>,
      canonicalUrl |-> TRUE, origin |-> TRUE],
     [entryId |-> 2, title |-> <<"a", "b">>, hasHighlight |-> FALSE,
      highlightText |-> <<>>, comment |-> <<"c">>,
      canonicalUrl |-> FALSE, origin |-> TRUE],
     [entryId |-> 3, title |-> <<"c">>, hasHighlight |-> FALSE,
      highlightText |-> <<>>, comment |-> <<>>,
      canonicalUrl |-> TRUE, origin |-> FALSE],
     [entryId |-> 1, title |-> <<"a", ":", "b">>, hasHighlight |-> TRUE,
      highlightText |-> <<"z">>, comment |-> <<"d">>,
      canonicalUrl |-> TRUE, origin |-> TRUE],
     [entryId |-> 4, title |-> <<"?", "c">>, hasHighlight |-> FALSE,
      highlightText |-> <<>>, comment |-> <<"e">>,
      canonicalUrl |-> FALSE, origin |-> FALSE] >>

\* The i-th annotation of the journal: a FeedlyAnnotatedEntry with its own
\* id, created at time i.
Annotation(i) ==
  LET s == Shapes[((i - 1) % Len(Shapes)) + 1]
  IN  [id |-> i, created |-> i, entryId |-> s.entryId, title |-> s.title,
       hasHighlight |-> s.hasHighlight, highlightText |-> s.highlightText,
       comment |-> s.comment, canonicalUrl |-> s.canonicalUrl,
       origin |-> s.origin]

Journals == { [i \in 1..n |-> Annotation(i)] : n \in 0..MaxAnn }

\* The first reading of the clock: later than every annotation of the journal.
FirstNow == MaxAnn + 1

\* Printable form of an entry id inside a document.
IdStr(i) == <<"e1", "e2", "e3", "e4">>[i]

\* ------------------------------------------------------------ pure functions

\* e.entry.title.replace(/[*"\/<>:|?]/g, '')
ForbiddenChars == {"*", "\"", "/", "<", ">", ":", "|", "?"}

NotForbidden(c) == c \notin ForbiddenChars

\* Mutant: the title is used as the file name unchanged.
sanitizedFileName_Unchanged(title) == title

sanitizedFileName(title) == SelectSeq(title, NotForbidden)

\* normalizePath(`${folderName}/${filename}`): the folder, a slash, the file
\* name and ".md"; a leading slash (an empty folder name) is dropped.
normalizePath(folderName, filename) ==
  IF folderName = "" THEN filename ELSE <<folderName, "/">> \o filename

DocPath(folderName, e) ==
  normalizePath(folderName, sanitizedFileName(e.title) \o <<".md">>)

\* getInitialContent: the frontmatter, one token per line; the url and the
\* publisher line only when the entry has them.
getInitialContent(e) ==
  <<"---">>
  \o (IF e.canonicalUrl THEN <<"url:">> ELSE <<>>)
  \o <<"feedlyUrl:", IdStr(e.entryId), "date:", "pubDate:", "author:">>
  \o (IF e.origin THEN <<"publisher:">> ELSE <<>>)
  \o <<"---", "\n">>

\* Mutant: the line breaks of the highlight are left as they are.
QuoteLines_Plain(text) == text

\* text.replace(/\n/g, '\n>\n> ')
RECURSIVE QuoteLines(_)
QuoteLines(text) ==
  IF text = <<>> THEN <<>>
  ELSE (IF Head(text) = "\n" THEN <<"\n", ">", "\n", ">", " ">>
        ELSE <<Head(text)>>) \o QuoteLines(Tail(text))

\* Mutant: the warning's text is returned for an entry with nothing to append.
getAppendContent_WarnText(e) ==
  IF e.hasHighlight
  THEN <<"\n", "\n", ">", " ">> \o QuoteLines(e.highlightText)
  ELSE IF e.comment # <<>>
       THEN <<"\n", "    ", "\n">> \o e.comment
       ELSE <<"No append content">>

\* getAppendContent: the highlight as a blockquote, else the comment, else
\* nothing.
getAppendContent(e) ==
  IF e.hasHighlight
  THEN <<"\n", "\n", ">", " ">> \o QuoteLines(e.highlightText)
  ELSE IF e.comment # <<>>
       THEN <<"\n", "    ", "\n">> \o e.comment
       ELSE <<>>

\* Mutant: the document is created for every entry, also when it exists.
MergeEntry_Recreates(d, folderName, e) ==
  LET path == DocPath(folderName, e)
  IN  [p \in DOMAIN d \cup {path} |->
         IF p = path THEN getInitialContent(e) \o getAppendContent(e) ELSE d[p]]

\* One iteration of processAnnotations' loop on the documents d.
MergeEntry(d, folderName, e) ==
  LET path == DocPath(folderName, e)
      had  == IF path \in DOMAIN d THEN d
              ELSE d @@ (path :> getInitialContent(e))
  IN  [had EXCEPT ![path] = @ \o getAppendContent(e)]

\* The service's answer to annotations/journal?newerThan=s&count=..&continuation=c
\* over journal j: the annotations newer than s, from offset c on, at most one
\* page of them.  A continuation value names the offset of the next page; the
\* page that ends the journal exactly carries one only if the service says so
\* (withCont).
Newer(j, s) == SelectSeq(j, LAMBDA a : a.created > s)

JournalPage(j, s, c, withCont) ==
  LET w    == Newer(j, s)
      rest == SubSeq(w, c + 1, Len(w))
      n    == Min(PageSize, Len(rest))
  IN  [entries |-> SubSeq(rest, 1, n),
       continuation |->
         IF Len(rest) > PageSize \/ (Len(rest) = PageSize /\ withCont)
         THEN c + PageSize ELSE Undefined]

\* ------------------------------------------------------- the export command

\* A field the service left out of an article.
Absent == "undefined"

\* The forms an article's rendered content, summary and full content take.
ArticleShapes ==
  << [content |-> "body", summary |-> Absent, fullContent |-> Absent],
     [content |-> Absent, summary |-> "summary", fullContent |-> Absent],
     [content |-> "", summary |-> "summary", fullContent |-> Absent],
     [content |-> Absent, summary |-> Absent, fullContent |-> Absent] >>

Article(i) ==
  LET s == ArticleShapes[((i - 1) % Len(ArticleShapes)) + 1]
  IN  [id |-> i, content |-> s.content, summary |-> s.summary,
       fullContent |-> s.fullContent]

Streams == { [i \in 1..n |-> Article(i)] : n \in 0..MaxArticles }

\* The entries under the global.saved tag, as entries/.mget returns them.
SavedArticles == << Article(MaxArticles + 1) >>

\* article.content?.content ?? article.summary?.content ?? article.fullContent
getContent(a) ==
  IF a.content # Absent THEN a.content
  ELSE IF a.summary # Absent THEN a.summary
  ELSE a.fullContent

\* articles.filter(x => getContent(x) !== undefined)
articlesToExport(articles) ==
  SelectSeq(articles, LAMBDA x : getContent(x) # Absent)

\* The section built for an article: the metadata block and, if getContent(x)
\* is truthy, the body.
Section(x) == [id |-> x.id, body |-> IF getContent(x) # "" THEN getContent(x) ELSE ""]

contents(articles) ==
  [i \in 1..Len(articlesToExport(articles)) |-> Section(articlesToExport(articles)[i])]

\* The files bookFile.getFilesForEPUB() can hand to the packaging: the
\* mimetype file, with an empty folder, and files in the five folders of the
\* book.
GeneratedFile(name, folder) == [name |-> name, folder |-> folder]

GeneratedFiles ==
  { GeneratedFile("mimetype", ""),
    GeneratedFile("container.xml", "META-INF"),
    GeneratedFile("ebook.opf", "OEBPF"),
    GeneratedFile("ebook.css", "OEBPF/css"),
    GeneratedFile("s1.xhtml", "OEBPF/content"),
    GeneratedFile("s2.xhtml", "OEBPF/content"),
    GeneratedFile("cover.png", "OEBPF/images") }

\* The lists of up to MaxFiles generated files, each file once, the mimetype
\* file among them at any place.
FileLists ==
  { l \in UNION { [1..n -> GeneratedFiles] : n \in 1..MaxFiles } :
      /\ \A i, j \in 1..Len(l) : i # j => l[i] # l[j]
      /\ \E i \in 1..Len(l) : l[i].name = "mimetype" }

\* zip.file(path, data, options): the entry replaces one of the same path or
\* is added after the entries there are.
ZipFile(zip, path, compression) ==
  LET entry == [path |-> path, compression |-> compression]
  IN  IF \E k \in 1..Len(zip) : zip[k].path = path
      THEN [k \in 1..Len(zip) |-> IF zip[k].path = path THEN entry ELSE zip[k]]
      ELSE Append(zip, entry)

\* zip.folder(name): a directory entry.
ZipFolder(zip, name) == ZipFile(zip, << name, "/" >>, "directory")

\* Mutant: the mimetype file is added with the archive's default compression.
AddMimetype_Default(zip, files) ==
  IF \E k \in 1..Len(files) : files[k].name = "mimetype"
  THEN ZipFile(zip, << "mimetype" >>, "default")
  ELSE zip

\* files.find(file => file.name === 'mimetype') and zip.file(..., STORE).
AddMimetype(zip, files) ==
  IF \E k \in 1..Len(files) : files[k].name = "mimetype"
  THEN ZipFile(zip, << "mimetype" >>, "STORE")
  ELSE zip

\* The folders object: the five folders of the book.
AddFolders(zip) ==
  ZipFolder(ZipFolder(ZipFolder(ZipFolder(ZipFolder(zip,
    "META-INF"), "OEBPF"), "OEBPF/css"), "OEBPF/content"), "OEBPF/images")

\* The loop over the files: every file but the mimetype goes into the folder
\* object of its folder, a file with an empty folder to the path "/name".
RECURSIVE AddOtherFiles(_, _)
AddOtherFiles(zip, files) ==
  IF files = <<>> THEN zip
  ELSE LET file == Head(files)
       IN  AddOtherFiles(
             IF file.name = "mimetype" THEN zip
             ELSE ZipFile(zip, << file.folder, "/", file.name >>, "default"),
             Tail(files))

\* The entries of the archive generateEpub builds from the files.
generateEpub(files) == AddOtherFiles(AddFolders(AddMimetype(<<>>, files)), files)

\* The service's answer to streams/contents?...&count=..&continuation=c.  As
\* in the journal, a full page that ends the stream exactly carries a
\* continuation only if the service says so (wc).
StreamPage(st, c, wc) ==
  LET rest == SubSeq(st, c + 1, Len(st))
      n    == Min(ExportPageSize, Len(rest))
  IN  [items |-> SubSeq(rest, 1, n),
       continuation |->
         IF Len(rest) > ExportPageSize \/ (Len(rest) = ExportPageSize /\ wc)
         THEN c + ExportPageSize ELSE Undefined]

\* Mutant: the export starts at the continuation the sync has stored.
FirstContinuation_OfSync(s) == s.continuationToken

\* let continuation: string | undefined = undefined
FirstContinuation(s) == Undefined

\* The export's catch: the notice for a failed stream request, or "" when the
\* error is only logged and the loop goes on.
ExportCatchNotice(kind) ==
  IF kind = "status 401" THEN "Access token expired, request a new one"
  ELSE IF kind = "status 429" THEN "API rate limit reached"
  ELSE ""

\* ------------------------------------------------------ the cleanup command

\* A file of the vault as the cleanup sees it: file.basename, file.extension.
VaultFile(basename, extension) == [basename |-> basename, extension |-> extension]

\* Files the user keeps in the vault besides the plugin's.
UserFiles ==
  { VaultFile(<< "FeedlySync", "-", "old" >>, "epub"),
    VaultFile(<< "FeedlySync", "X" >>, "epub"),
    VaultFile(<< "FeedlySync", "-", "notes" >>, "md"),
    VaultFile(<< "My", "FeedlySync" >>, "epub"),
    VaultFile(<< "book" >>, "epub") }

\* The file of a document: its path without the folder and the ".md".
DocFile(path) == VaultFile(SubSeq(path, 3, Len(path) - 1), "md")

\* The file createBinary(`${filePath}.epub`) wrote, filePath being
\* `FeedlySync-${Date.now()}`.
TimeStr(t) ==
  << "t1", "t2", "t3", "t4", "t5", "t6", "t7", "t8", "t9", "t10", "t11", "t12" >>[t]

ArtifactFile(f) == VaultFile(<< "FeedlySync", "-", TimeStr(f.name) >>, "epub")

\* this.app.vault.getFiles(): every file of the vault not in the trash.
getFiles(d, arts, trashed) ==
  ({ DocFile(p) : p \in DOMAIN d } \cup { ArtifactFile(f) : f \in arts }
   \cup UserFiles) \ trashed

\* Mutant: every epub file is trashed.
ShouldTrash_AnyEpub(file) == file.extension = "epub"

\* file.extension === 'epub' && file.basename.startsWith('FeedlySync')
ShouldTrash(file) ==
  file.extension = "epub" /\ file.basename # <<>> /\ Head(file.basename) = "FeedlySync"

\* The files of a set in the order the loop meets them.
RECURSIVE InOrder(_)
InOrder(files) ==
  IF files = {} THEN <<>>
  ELSE LET file == CHOOSE x \in files : TRUE
       IN  << file >> \o InOrder(files \ {file})

\* -------------------------------------------------------- the sync command

\* Mutant: the entries of a page are taken from its end.
NextEntry_FromEnd(entries, i) == entries[Len(entries) + 1 - i]

\* for (const e of entries): the i-th entry the loop takes.
NextEntry(entries, i) == entries[i]

\* Mutant: only the user id is checked.
MissingCredentials_UserIdOnly(s) == s.userId = ""

\* if (!this.settings.userId) ... if (!this.settings.accessToken) ...: the
\* command returns with a notice.
MissingCredentials(s) == s.userId = "" \/ s.accessToken = ""

MissingNotice(s) ==
  IF s.userId = "" THEN "Missing Feedly user id" ELSE "Missing Feedly access token"

\* if (!continuationToken): no stored token, a full multi-step sync begins.
IsFreshSync(token) == token = Undefined

\* Mutant: the save of the start time is not awaited.
SaveSnapshot_NotAwaited(s, st, pend) == [store |-> st, pending |-> Append(pend, s)]

\* this.settings.continuationTime = Date.now(); await this.saveSettings(...):
\* the record the host holds (st before the save) and the writes still
\* outstanding, once the awaited save of s has returned.
SaveSnapshot(s, st, pend) == [store |-> s, pending |-> pend]

\* this.saveSettings(this.settings) without await: the write is handed to the
\* host and the command goes on.
SaveNotAwaited(s, pend) == Append(pend, s)

\* Mutant: a full page counts as the last page.
IsLastPage_OffByOne(count) == count <= PageSize

\* if (res.count < 100): the last page of this sync.
IsLastPage(count) == count < PageSize

\* Mutant: the token is not cleared after the last page.
CheckpointLastPage_KeepsToken(s) == [s EXCEPT !.lastSync = s.continuationTime]

\* continuationToken = undefined; lastSync = continuationTime
CheckpointLastPage(s) ==
  [s EXCEPT !.continuationToken = Undefined, !.lastSync = s.continuationTime]

\* Mutant: the continuation of a full page is not stored.
CheckpointFullPage_NoToken(s, token) == s

\* this.settings.continuationToken = continuationToken
CheckpointFullPage(s, token) == [s EXCEPT !.continuationToken = token]

\* What a failed page request looks like to getAnnotations: the message of
\* the error apiCall throws, or of new Error(a) for a body with an errorCode.
FailKinds == {"status 401", "status 429", "status 500", "errorCode"}

ErrorMessage(kind) ==
  IF kind = "errorCode" THEN "[object Object]"
  ELSE IF kind = "status 401" THEN "Error: Request failed, status 401"
  ELSE IF kind = "status 429" THEN "Error: Request failed, status 429"
  ELSE "Error: Request failed, status 500"

\* getAnnotations' catch: the message it throws on, or "" when it swallows the
\* error and the function returns undefined.
getAnnotationsThrows(kind) ==
  IF kind = "status 401" THEN "Access token expired, request a new one"
  ELSE IF kind = "status 429" THEN "API rate limit reached"
  ELSE ""

\* The callback's catch: the notice shown for a thrown message.
CatchNotice(message) ==
  IF message = "API rate limit reached"
  THEN "The Feedly API rate limit has been reached, continue later"
  ELSE message

Notice(text, n) == [text |-> text, n |-> n]

NoRequest == [sent |-> FALSE, newerThan |-> Undefined, continuation |-> Undefined]

\* Mutant: the request does not pass lastSync.
PageRequest_NoLowerBound(s, token) ==
  [sent |-> TRUE, newerThan |-> Undefined, continuation |-> token]

\* getAnnotations(accessToken, continuationToken, this.settings.lastSync)
PageRequest(s, token) ==
  [sent |-> TRUE, newerThan |-> s.lastSync, continuation |-> token]

\* loadSettings: Object.assign({}, DEFAULT_SETTINGS, await this.loadData())
loadSettings(data) == data

VARIABLES
  store,              \* the record the host persists (data.json)
  pending,            \* saves handed to the host and not yet written
  settings,           \* this.settings of the plugin
  now,                \* the clock Date.now() reads
  folders,            \* the folders of the vault
  docs,               \* path -> content of the documents of the vault
  journal,            \* the annotations the service holds
  withCont,           \* the service sends a continuation with a last full page
  pc,                 \* "idle", "awaitPage" or "merging"
  continuationToken,  \* the callback's local continuationToken
  entryCounter,       \* the callback's local entryCounter
  page,               \* res.entries of the page being merged
  idx,                \* position of processAnnotations in page
  req,                \* the page request in flight
  syncNotices,        \* the notices of the current or most recent sync
  merged,             \* ids of the annotations appended, in order
  outcome,            \* how the most recent sync invocation that ended, ended
  windowStart,        \* the clock at the start of the latest fresh sync
  failedReq,          \* the request whose failure ended it
  firstReq,           \* the request in flight is the invocation's first
  gotShort,           \* the invocation received a page shorter than PageSize
  midStop,            \* the process was stopped while a page was being merged
  epc,                \* "idle", "awaitStream", "awaitTags" or "awaitMget"
  stream,             \* the unread stream the service holds for this export
  articles,           \* the export's local articles
  econtinuation,      \* the export's local continuation
  filePath,           \* the timestamp in the export's file name
  exportNotices,      \* the notices of the current or most recent export
  exportRequests,     \* requests the current or most recent export issued
  artifacts,          \* the .epub files of the vault
  cpc,                \* "idle" or "trashing": the cleanup command
  cqueue,             \* the files of getFiles() the cleanup has yet to look at
  trash,              \* the files moved to the system trash
  epubFiles,          \* the generated files generateEpub packages
  epubZip,            \* the entries of the archive generateEpub has built
  tabOpen,            \* the settings tab is displayed
  tabSettings,        \* this.settings of the settings tab
  tabSteps,           \* times the tab was opened or a field of it edited
  syncRuns, exportRuns, cleanupRuns, failures, stops, pagesGot

vars ==
  << store, pending, settings, now, folders, docs, journal, withCont, pc,
     continuationToken, entryCounter, page, idx, req, syncNotices, merged,
     outcome, windowStart, failedReq, firstReq, gotShort, midStop, epc, stream,
     articles,
     econtinuation, filePath, exportNotices, exportRequests, artifacts,
     cpc, cqueue, trash, epubFiles, epubZip, tabOpen, tabSettings, tabSteps,
     syncRuns, exportRuns, cleanupRuns, failures, stops, pagesGot >>

cleanupVars == << cpc, cqueue, trash, cleanupRuns >>

epubVars == << epubFiles, epubZip >>

tabVars == << tabOpen, tabSettings, tabSteps >>

syncVars ==
  << pc, continuationToken, entryCounter, page, idx, req, syncNotices, merged,
     outcome, windowStart, failedReq, firstReq, gotShort, syncRuns, pagesGot >>

exportVars ==
  << epc, stream, articles, econtinuation, filePath, exportNotices,
     exportRequests, artifacts >>

Credentials == {"", "id"}

InitProgram ==
  /\ \E u \in Credentials, t \in Credentials :
       store = [DEFAULT_SETTINGS EXCEPT !.userId = u, !.accessToken = t]
  /\ pending = <<>>
  /\ settings = loadSettings(store)
  /\ now = FirstNow
  /\ folders = {}
  /\ docs = <<>>
  /\ journal \in Journals
  /\ withCont \in BOOLEAN
  /\ pc = "idle"
  /\ continuationToken = Undefined
  /\ entryCounter = 0
  /\ page = <<>>
  /\ idx = 0
  /\ req = NoRequest
  /\ syncNotices = <<>>
  /\ merged = <<>>
  /\ outcome = "none"
  /\ windowStart = Undefined
  /\ failedReq = NoRequest
  /\ firstReq = FALSE
  /\ gotShort = FALSE
  /\ midStop = FALSE
  /\ epc = "idle"
  /\ stream = <<>>
  /\ articles = <<>>
  /\ econtinuation = Undefined
  /\ filePath = Undefined
  /\ exportNotices = <<>>
  /\ exportRequests = 0
  /\ artifacts = {}
  /\ cpc = "idle"
  /\ cqueue = <<>>
  /\ trash = {}
  /\ cleanupRuns = 0
  /\ exportRuns = 0
  /\ syncRuns = 0
  /\ failures = 0
  /\ stops = 0
  /\ pagesGot = 0
  /\ tabOpen = FALSE
  /\ tabSettings = DEFAULT_SETTINGS
  /\ tabSteps = 0

Init ==
  /\ InitProgram
  /\ epubFiles = <<>>
  /\ epubZip = <<>>

\* The callback from its start to its first page request: the settings are
\* loaded, the credentials checked, a fresh sync records its start time.
SyncStart ==
  /\ pc = "idle"
  /\ pending = <<>>
  /\ syncRuns + exportRuns + cleanupRuns < MaxInvocations
  /\ syncRuns' = syncRuns + 1
  /\ now' = now + 1
  /\ LET loaded == loadSettings(store)
     IN  IF MissingCredentials(loaded)
         THEN /\ settings' = loaded
              /\ syncNotices' = << Notice(MissingNotice(loaded), 0) >>
              /\ outcome' = "config"
              /\ UNCHANGED << store, pending, folders, pc, continuationToken,
                              entryCounter, req, firstReq, gotShort,
                              windowStart >>
         ELSE LET token == loaded.continuationToken
                  s1    == IF IsFreshSync(token)
                           THEN [loaded EXCEPT !.continuationTime = now]
                           ELSE loaded
                  saved == IF IsFreshSync(token) THEN SaveSnapshot(s1, store, pending)
                           ELSE [store |-> store, pending |-> pending]
              IN  /\ settings' = s1
                  /\ store' = saved.store
                  /\ pending' = saved.pending
                  /\ syncNotices' =
                       << Notice("Beginning to download Feedly annotations", 0) >>
                  /\ folders' = folders \cup {s1.annotationsFolder}
                  /\ continuationToken' = token
                  /\ entryCounter' = 0
                  /\ req' = PageRequest(s1, token)
                  /\ firstReq' = TRUE
                  /\ gotShort' = FALSE
                  /\ windowStart' = IF store.continuationToken = Undefined
                                     THEN now ELSE windowStart
                  /\ outcome' = outcome
                  /\ pc' = "awaitPage"
  /\ UNCHANGED << docs, journal, withCont, page, idx, merged, failedReq,
                  midStop, exportRuns, failures, stops, pagesGot >>
  /\ UNCHANGED exportVars
  /\ UNCHANGED cleanupVars
  /\ UNCHANGED epubVars
  /\ UNCHANGED tabVars

\* The service answers the request in flight with a page.
SyncPage ==
  /\ pc = "awaitPage"
  /\ pending = <<>>
  /\ pagesGot < MaxPages
  /\ pagesGot' = pagesGot + 1
  /\ LET res == JournalPage(journal, req.newerThan, req.continuation, withCont)
     IN  /\ continuationToken' = res.continuation
         /\ page' = res.entries
         /\ gotShort' = IsLastPage(Len(res.entries))
  /\ idx' = 1
  /\ pc' = "merging"
  /\ req' = NoRequest
  /\ firstReq' = FALSE
  /\ UNCHANGED << store, pending, settings, now, folders, docs, journal,
                  withCont, entryCounter, syncNotices, merged, outcome,
                  windowStart, failedReq, midStop, syncRuns, exportRuns,
                  failures, stops >>
  /\ UNCHANGED exportVars
  /\ UNCHANGED cleanupVars
  /\ UNCHANGED epubVars
  /\ UNCHANGED tabVars

\* The request in flight fails: the loop ends, with a notice if
\* getAnnotations throws, and the closing notice follows.
SyncFail(kind) ==
  /\ pc = "awaitPage"
  /\ pending = <<>>
  /\ failures + stops < MaxInterruptions
  /\ failures' = failures + 1
  /\ LET thrown == getAnnotationsThrows(kind)
     IN  syncNotices' =
           syncNotices
           \o (IF thrown = "" THEN <<>> ELSE << Notice(CatchNotice(thrown), 0) >>)
           \o << Notice("Synced annotations", entryCounter) >>
  /\ outcome' = kind
  /\ failedReq' = req
  /\ req' = NoRequest
  /\ firstReq' = FALSE
  /\ continuationToken' = Undefined
  /\ pc' = "idle"
  /\ UNCHANGED << store, pending, settings, now, folders, docs, journal,
                  withCont, entryCounter, page, idx, merged, gotShort,
                  windowStart, midStop, syncRuns, exportRuns, stops, pagesGot >>
  /\ UNCHANGED exportVars
  /\ UNCHANGED cleanupVars
  /\ UNCHANGED epubVars
  /\ UNCHANGED tabVars

\* processAnnotations merges the next entry of the page.
SyncMerge ==
  /\ pc = "merging"
  /\ idx <= Len(page)
  /\ docs' = MergeEntry(docs, settings.annotationsFolder, NextEntry(page, idx))
  /\ merged' = Append(merged, NextEntry(page, idx).id)
  /\ entryCounter' = entryCounter + 1
  /\ idx' = idx + 1
  /\ UNCHANGED << store, pending, settings, now, folders, journal, withCont,
                  pc, continuationToken, page, req, syncNotices, outcome,
                  windowStart, failedReq, firstReq, gotShort, midStop, syncRuns,
                  exportRuns, failures, stops, pagesGot >>
  /\ UNCHANGED exportVars
  /\ UNCHANGED cleanupVars
  /\ UNCHANGED epubVars
  /\ UNCHANGED tabVars

\* The page is merged: a last page completes the sync, a full page stores
\* its continuation and the next page is requested.
SyncCheckpoint ==
  /\ pc = "merging"
  /\ idx > Len(page)
  /\ IF IsLastPage(Len(page))
     THEN LET s1 == CheckpointLastPage(settings)
          IN  /\ settings' = s1
              /\ pending' = SaveNotAwaited(s1, pending)
              /\ syncNotices' =
                   syncNotices
                   \o << Notice("All Feedly annotations synced", 0),
                         Notice("Synced annotations", entryCounter) >>
              /\ outcome' = "done"
              /\ continuationToken' = Undefined
              /\ req' = NoRequest
              /\ pc' = "idle"
     ELSE LET s1 == CheckpointFullPage(settings, continuationToken)
          IN  /\ settings' = s1
              /\ pending' = SaveNotAwaited(s1, pending)
              /\ req' = PageRequest(s1, continuationToken)
              /\ pc' = "awaitPage"
              /\ UNCHANGED << syncNotices, outcome, continuationToken >>
  /\ firstReq' = FALSE
  /\ page' = <<>>
  /\ idx' = 0
  /\ UNCHANGED << store, now, folders, docs, journal, withCont, entryCounter,
                  merged, windowStart, failedReq, gotShort, midStop, syncRuns,
                  exportRuns, failures, stops, pagesGot >>
  /\ UNCHANGED exportVars
  /\ UNCHANGED cleanupVars
  /\ UNCHANGED epubVars
  /\ UNCHANGED tabVars

\* The host writes the oldest outstanding save.
WriteLands ==
  /\ pending # <<>>
  /\ store' = Head(pending)
  /\ pending' = Tail(pending)
  /\ UNCHANGED << settings, now, folders, docs, journal, withCont, midStop,
                  exportRuns, failures, stops >>
  /\ UNCHANGED syncVars
  /\ UNCHANGED exportVars
  /\ UNCHANGED cleanupVars
  /\ UNCHANGED epubVars
  /\ UNCHANGED tabVars

\* The export callback returns: its locals are gone.
ExportEnds ==
  /\ epc' = "idle"
  /\ stream' = <<>>
  /\ articles' = <<>>
  /\ econtinuation' = Undefined
  /\ filePath' = Undefined

\* The export callback from its start to its first stream request: the file
\* name takes the time, the credentials of this.settings are checked.
ExportStart ==
  /\ epc = "idle"
  /\ pending = <<>>
  /\ syncRuns + exportRuns + cleanupRuns < MaxInvocations
  /\ exportRuns' = exportRuns + 1
  /\ now' = now + 1
  /\ articles' = <<>>
  /\ econtinuation' = FirstContinuation(settings)
  /\ IF MissingCredentials(settings)
     THEN /\ exportNotices' = << Notice(MissingNotice(settings), 0) >>
          /\ exportRequests' = 0
          /\ filePath' = Undefined
          /\ UNCHANGED << epc, stream >>
     ELSE /\ exportNotices' = <<>>
          /\ stream' \in Streams
          /\ exportRequests' = 1
          /\ filePath' = now
          /\ epc' = "awaitStream"
  /\ UNCHANGED << store, pending, settings, folders, docs, journal, withCont,
                  midStop, artifacts, failures, stops >>
  /\ UNCHANGED syncVars
  /\ UNCHANGED cleanupVars
  /\ UNCHANGED epubVars
  /\ UNCHANGED tabVars

\* The service answers the stream request: the items are kept, a page shorter
\* than the page size ends phase 1 and the tags are requested.
ExportPage ==
  /\ epc = "awaitStream"
  /\ pending = <<>>
  /\ exportRequests < MaxExportRequests
  /\ LET res == StreamPage(stream, econtinuation, withCont)
     IN  /\ econtinuation' = res.continuation
         /\ articles' = articles \o res.items
         /\ epc' = IF Len(res.items) < ExportPageSize THEN "awaitTags"
                   ELSE "awaitStream"
  /\ exportRequests' = exportRequests + 1
  /\ UNCHANGED << store, pending, settings, now, folders, docs, journal,
                  withCont, midStop, stream, filePath, exportNotices, artifacts,
                  exportRuns, failures, stops >>
  /\ UNCHANGED syncVars
  /\ UNCHANGED cleanupVars
  /\ UNCHANGED epubVars
  /\ UNCHANGED tabVars

\* The stream request fails, or its answer has no items.  401 and 429 end the
\* command with a notice, an answer without items ends it silently, any other
\* error is logged and the same request is sent again.
ExportFail(kind) ==
  /\ epc = "awaitStream"
  /\ pending = <<>>
  /\ failures + stops < MaxInterruptions
  /\ failures' = failures + 1
  /\ IF kind = "no items"
     THEN /\ ExportEnds
          /\ UNCHANGED << exportNotices, exportRequests >>
     ELSE IF ExportCatchNotice(kind) # ""
     THEN /\ ExportEnds
          /\ exportNotices' = Append(exportNotices, Notice(ExportCatchNotice(kind), 0))
          /\ UNCHANGED exportRequests
     ELSE /\ exportRequests' = exportRequests + 1
          /\ UNCHANGED << epc, exportNotices, stream, articles, econtinuation,
                          filePath >>
  /\ UNCHANGED << store, pending, settings, now, folders, docs, journal,
                  withCont, midStop, artifacts, exportRuns, stops >>
  /\ UNCHANGED syncVars
  /\ UNCHANGED cleanupVars
  /\ UNCHANGED epubVars
  /\ UNCHANGED tabVars

\* getSavedLater: markers/tags is answered and entries/.mget is requested.
ExportTags ==
  /\ epc = "awaitTags"
  /\ pending = <<>>
  /\ exportRequests < MaxExportRequests
  /\ epc' = "awaitMget"
  /\ exportRequests' = exportRequests + 1
  /\ UNCHANGED << store, pending, settings, now, folders, docs, journal,
                  withCont, midStop, stream, articles, econtinuation, filePath,
                  exportNotices, artifacts, exportRuns, failures, stops >>
  /\ UNCHANGED syncVars
  /\ UNCHANGED cleanupVars
  /\ UNCHANGED epubVars
  /\ UNCHANGED tabVars

\* entries/.mget is answered: the saved articles are added, the articles with
\* content become sections and generateEpub writes the archive.  this.app in
\* generateEpub is the global app or undefined, as the build has it: with
\* undefined createBinary throws and the callback ends.
ExportMget ==
  /\ epc = "awaitMget"
  /\ pending = <<>>
  /\ LET all == articles \o SavedArticles
     IN  /\ \E thisIsGlobal \in BOOLEAN :
              IF thisIsGlobal
              THEN /\ artifacts' = artifacts \cup
                        {[name |-> filePath, sections |-> contents(all)]}
                   /\ exportNotices' =
                        Append(exportNotices,
                               Notice("Generated epub with articles",
                                      Len(articlesToExport(all))))
              ELSE UNCHANGED << artifacts, exportNotices >>
  /\ ExportEnds
  /\ UNCHANGED << store, pending, settings, now, folders, docs, journal,
                  withCont, midStop, exportRequests, exportRuns, failures,
                  stops >>
  /\ UNCHANGED syncVars
  /\ UNCHANGED cleanupVars
  /\ UNCHANGED epubVars
  /\ UNCHANGED tabVars

\* A request of getSavedLater fails: the error leaves the callback.
ExportSavedFail ==
  /\ epc \in {"awaitTags", "awaitMget"}
  /\ pending = <<>>
  /\ failures + stops < MaxInterruptions
  /\ failures' = failures + 1
  /\ ExportEnds
  /\ UNCHANGED << store, pending, settings, now, folders, docs, journal,
                  withCont, midStop, exportNotices, exportRequests, artifacts,
                  exportRuns, stops >>
  /\ UNCHANGED syncVars
  /\ UNCHANGED cleanupVars
  /\ UNCHANGED epubVars
  /\ UNCHANGED tabVars

\* The cleanup callback from its start to its first trash call: the files are
\* read, those that are no FeedlySync epub are passed over.
CleanupStart ==
  /\ cpc = "idle"
  /\ pending = <<>>
  /\ syncRuns + exportRuns + cleanupRuns < MaxInvocations
  /\ cleanupRuns' = cleanupRuns + 1
  /\ LET files == SelectSeq(InOrder(getFiles(docs, artifacts, trash)), ShouldTrash)
     IN  /\ cqueue' = files
         /\ cpc' = IF files = <<>> THEN "idle" ELSE "trashing"
  /\ UNCHANGED << store, pending, settings, now, folders, docs, journal,
                  withCont, midStop, trash, exportRuns, failures, stops >>
  /\ UNCHANGED syncVars
  /\ UNCHANGED exportVars
  /\ UNCHANGED epubVars
  /\ UNCHANGED tabVars

\* vault.trash(file, true) completes and the loop goes on to the next
\* FeedlySync epub, or ends.
CleanupTrash ==
  /\ cpc = "trashing"
  /\ trash' = trash \cup { Head(cqueue) }
  /\ cqueue' = Tail(cqueue)
  /\ cpc' = IF Tail(cqueue) = <<>> THEN "idle" ELSE "trashing"
  /\ UNCHANGED << store, pending, settings, now, folders, docs, journal,
                  withCont, midStop, cleanupRuns, exportRuns, failures,
                  stops >>
  /\ UNCHANGED syncVars
  /\ UNCHANGED exportVars
  /\ UNCHANGED epubVars
  /\ UNCHANGED tabVars

\* The process is stopped while a command runs and started again: the
\* callbacks and their locals are gone, onload loads the settings.
Stop ==
  /\ pc # "idle" \/ epc # "idle" \/ cpc # "idle"
  /\ pending = <<>>
  /\ failures + stops < MaxInterruptions
  /\ stops' = stops + 1
  /\ midStop' = (midStop \/ pc = "merging")
  /\ settings' = loadSettings(store)
  /\ outcome' = IF pc # "idle" THEN "stopped" ELSE outcome
  /\ pc' = "idle"
  /\ continuationToken' = Undefined
  /\ page' = <<>>
  /\ idx' = 0
  /\ req' = NoRequest
  /\ firstReq' = FALSE
  /\ ExportEnds
  /\ cpc' = "idle"
  /\ cqueue' = <<>>
  /\ UNCHANGED << store, pending, now, folders, docs, journal, withCont,
                  entryCounter, syncNotices, merged, windowStart, failedReq,
                  gotShort, syncRuns, pagesGot, exportNotices, exportRequests,
                  artifacts, exportRuns, failures, trash, cleanupRuns >>
  /\ tabOpen' = FALSE
  /\ tabSettings' = DEFAULT_SETTINGS
  /\ UNCHANGED tabSteps
  /\ UNCHANGED epubVars

\* The failures of a stream request: apiCall throws on a status, and an answer
\* without items is what a body with an error code is to the export.
ExportFailKinds == {"status 401", "status 429", "status 500", "no items"}

Next ==
  \/ SyncStart
  \/ SyncPage
  \/ \E kind \in FailKinds : SyncFail(kind)
  \/ SyncMerge
  \/ SyncCheckpoint
  \/ WriteLands
  \/ ExportStart
  \/ ExportPage
  \/ \E kind \in ExportFailKinds : ExportFail(kind)
  \/ ExportTags
  \/ ExportMget
  \/ ExportSavedFail
  \/ Stop

Spec == Init /\ [][Next]_vars

\* The three commands.
NextCleanup ==
  \/ Next
  \/ CleanupStart
  \/ CleanupTrash

SpecCleanup == Init /\ [][NextCleanup]_vars

\* FeedlySettingTab.display: the tab takes its own record from the stored
\* data.
TabOpen ==
  /\ pending = <<>>
  /\ tabSteps < MaxTabSteps
  /\ tabSteps' = tabSteps + 1
  /\ tabOpen' = TRUE
  /\ tabSettings' = store
  /\ UNCHANGED << store, pending, settings, now, folders, docs, journal,
                  withCont, midStop, exportRuns, failures, stops >>
  /\ UNCHANGED syncVars
  /\ UNCHANGED exportVars
  /\ UNCHANGED cleanupVars
  /\ UNCHANGED epubVars

\* The fields of the tab and the values typed into them.
TabFields == {"userId", "accessToken", "annotationsFolder"}

TabValues(field) ==
  IF field = "annotationsFolder" THEN {"Notes"} ELSE {"", "id2"}

\* onChange of a field: this.settings[field] = value and
\* await this.plugin.saveSettings(this.settings), the tab's record.
TabEdit(field, value) ==
  /\ tabOpen
  /\ pending = <<>>
  /\ tabSteps < MaxTabSteps
  /\ tabSettings[field] # value
  /\ tabSteps' = tabSteps + 1
  /\ tabSettings' = [tabSettings EXCEPT ![field] = value]
  /\ store' = tabSettings'
  /\ UNCHANGED << pending, settings, now, folders, docs, journal, withCont,
                  midStop, tabOpen, exportRuns, failures, stops >>
  /\ UNCHANGED syncVars
  /\ UNCHANGED exportVars
  /\ UNCHANGED cleanupVars
  /\ UNCHANGED epubVars

\* The sync command and the settings tab.
NextTab ==
  \/ SyncStart
  \/ SyncPage
  \/ \E kind \in FailKinds : SyncFail(kind)
  \/ SyncMerge
  \/ SyncCheckpoint
  \/ WriteLands
  \/ Stop
  \/ TabOpen
  \/ \E field \in TabFields : \E value \in TabValues(field) : TabEdit(field, value)

SpecTab == Init /\ [][NextTab]_vars

\* The user annotates an article in Feedly: the journal gains an annotation
\* created at the present time, newer than every annotation it holds.
AnnotationCreated ==
  /\ pending = <<>>
  /\ Len(journal) < MaxAnn
  /\ journal' = Append(journal,
                       [Annotation(Len(journal) + 1) EXCEPT !.created = now])
  /\ now' = now + 1
  /\ UNCHANGED << store, pending, settings, folders, docs, withCont, midStop,
                  exportRuns, failures, stops >>
  /\ UNCHANGED syncVars
  /\ UNCHANGED exportVars
  /\ UNCHANGED cleanupVars
  /\ UNCHANGED epubVars
  /\ UNCHANGED tabVars

\* Syncs that run to their end over a journal that grows.
NextCreate ==
  \/ SyncStart
  \/ SyncPage
  \/ SyncMerge
  \/ SyncCheckpoint
  \/ WriteLands
  \/ AnnotationCreated

SpecCreate == Init /\ [][NextCreate]_vars

\* The sync under the scheduling of the runtime: an answer that has arrived
\* is handled, processAnnotations and the loop go on while the process runs,
\* and the host completes a write it was handed.
SyncFairness ==
  /\ WF_vars(SyncPage)
  /\ WF_vars(SyncMerge)
  /\ WF_vars(SyncCheckpoint)
  /\ WF_vars(WriteLands)

SpecLive == Spec /\ SyncFairness

\* generateEpub on its own, for every list of generated files.
InitEpub ==
  /\ InitProgram
  /\ journal = <<>> /\ withCont
  /\ store.userId = "id" /\ store.accessToken = "id"
  /\ epubFiles \in FileLists
  /\ epubZip = <<>>

Package ==
  /\ epubZip = <<>>
  /\ epubFiles # <<>>
  /\ epubZip' = generateEpub(epubFiles)
  /\ UNCHANGED << store, pending, settings, now, folders, docs, journal,
                  withCont, midStop, epubFiles, exportRuns, failures, stops >>
  /\ UNCHANGED syncVars
  /\ UNCHANGED exportVars
  /\ UNCHANGED cleanupVars
  /\ UNCHANGED tabVars

NextEpub == Package

SpecEpub == InitEpub /\ [][NextEpub]_vars

\* ------------------------------------------------------------------ claims

Count(seq, x) == Cardinality({ k \in 1..Len(seq) : seq[k] = x })

Ids(entries) == [k \in 1..Len(entries) |-> entries[k].id]

\* processAnnotations over a whole list of entries, in order.
RECURSIVE MergeAll(_, _, _)
MergeAll(d, folderName, entries) ==
  IF entries = <<>> THEN d
  ELSE MergeAll(MergeEntry(d, folderName, Head(entries)), folderName, Tail(entries))

\* The documents one sync that is never interrupted leaves for the journal.
UninterruptedDocs == MergeAll(<<>>, DefaultFolder, journal)

\* C1: a sync interrupted only by failed requests or by stops between pages,
\* and resumed, appends no annotation twice, and once a sync has completed
\* the documents are those of one uninterrupted sync: every annotation of the
\* journal appended exactly once.
C1_ResumedSyncEqualsUninterrupted ==
  ~midStop =>
    /\ \A i \in 1..Len(journal) : Count(merged, i) <= 1
    /\ outcome = "done" => (merged = Ids(journal) /\ docs = UninterruptedDocs)

\* C1, where the service sends a continuation value with every full page.
C1_WithContinuationOnFullPages == withCont => C1_ResumedSyncEqualsUninterrupted

\* C1: a sync was interrupted by a failed request and resumed, and the
\* resumed sync, answered with a full page without a continuation value,
\* has asked for the first page of the window again and merged an annotation
\* a second time.
C1_ResumedAfterFailure ==
  /\ ~midStop
  /\ failures > 0
  /\ syncRuns > 1
  /\ \E i \in 1..Len(journal) : Count(merged, i) > 1

\* C2: each change of lastSync, in the plugin's record and in the stored one,
\* sets it to the continuationTime stored earlier; the plugin's record changes
\* in the step that follows the merge of a page shorter than the page size,
\* and the stored record when the write of that step lands.
C2_LastSyncOnlyAfterShortPage ==
  [][ /\ settings'.lastSync # settings.lastSync =>
           /\ pc = "merging" /\ idx > Len(page) /\ Len(page) < PageSize
           /\ settings'.lastSync = store.continuationTime
           /\ store.continuationTime # Undefined
      /\ store'.lastSync # store.lastSync =>
           /\ pending # <<>> /\ Head(pending) = settings
           /\ gotShort /\ pc = "idle"
           /\ store'.lastSync = store.continuationTime ]_vars

\* C2: a sync of more than one page has completed and its lastSync is stored.
C2_AdvancedAfterSeveralPages ==
  /\ store.lastSync # Undefined
  /\ store.lastSync = store.continuationTime
  /\ pending = <<>>
  /\ Len(merged) > PageSize

SyncInterrupted == outcome \in FailKinds \cup {"stopped"}

SyncQuiescent == pc = "idle" /\ pending = <<>>

C4_AuthAndRateLimitKeepCheckpoint ==
  [][ /\ (pc = "awaitPage" /\ pc' = "idle" /\ failures' # failures
          /\ outcome' \in {"status 401", "status 429"}) =>
           /\ store' = store /\ pending' = pending /\ settings' = settings
           /\ store.continuationToken = req.continuation
           /\ store.lastSync = req.newerThan
           /\ Len(syncNotices') = Len(syncNotices) + 2
           /\ syncNotices'[Len(syncNotices) + 1].text =
                (IF outcome' = "status 429"
                 THEN "The Feedly API rate limit has been reached, continue later"
                 ELSE "Access token expired, request a new one")
      /\ (syncRuns' # syncRuns /\ pc' = "awaitPage"
          /\ outcome \in {"status 401", "status 429"}) =>
           req' = failedReq ]_vars

\* C4: the invocation after a 429 on page 2 requests page 2 again.
C4_ResumesAtFailedPage ==
  /\ pc = "awaitPage" /\ firstReq
  /\ outcome = "status 429"
  /\ req = failedReq
  /\ req.continuation = PageSize

\* C5: a page request that fails with another error ends the loop without a
\* change of lastSync or the token, and the error's message is shown.
C5_OtherErrorIsShown ==
  [][ (pc = "awaitPage" /\ pc' = "idle" /\ failures' # failures
       /\ outcome' \in {"status 500", "errorCode"}) =>
        /\ store' = store /\ pending' = pending /\ settings' = settings
        /\ \E k \in 1..Len(syncNotices') :
             syncNotices'[k].text = ErrorMessage(outcome') ]_vars

\* C5, the part the code keeps: the loop ends and the checkpoint is unchanged.
C5_OtherErrorKeepsCheckpoint ==
  [][ (pc = "awaitPage" /\ pc' = "idle" /\ failures' # failures
       /\ outcome' \in {"status 500", "errorCode"}) =>
        (store' = store /\ pending' = pending /\ settings' = settings) ]_vars

\* C5: a request has failed with status 500 and the notices of the invocation
\* are the opening one and the closing count, the error's message not among
\* them.
C5_OtherErrorSwallowed ==
  /\ pc = "idle" /\ outcome = "status 500"
  /\ syncNotices = << Notice("Beginning to download Feedly annotations", 0),
                      Notice("Synced annotations", entryCounter) >>

CheckpointOf(s) == << s.lastSync, s.continuationTime, s.continuationToken >>

\* C6: a sync or an export started with an empty userId or accessToken shows
\* the configuration notice, sends no request, writes no document or archive
\* and leaves the checkpoint as it is.
C6_MissingCredentialsStopAtEntry ==
  [][ /\ (syncRuns' # syncRuns /\ (store.userId = "" \/ store.accessToken = "")) =>
           /\ pc' = "idle" /\ ~req'.sent
           /\ syncNotices' = << Notice(MissingNotice(store), 0) >>
           /\ store' = store /\ pending' = pending
           /\ CheckpointOf(settings') = CheckpointOf(store)
           /\ docs' = docs /\ folders' = folders /\ artifacts' = artifacts
      /\ (exportRuns' # exportRuns
          /\ (settings.userId = "" \/ settings.accessToken = "")) =>
           /\ epc' = "idle" /\ exportRequests' = 0
           /\ exportNotices' = << Notice(MissingNotice(settings), 0) >>
           /\ store' = store /\ pending' = pending /\ settings' = settings
           /\ docs' = docs /\ folders' = folders /\ artifacts' = artifacts ]_vars

\* C6: both commands were started with an access token missing.
C6_BothCommandsRefused ==
  /\ store.userId # "" /\ store.accessToken = ""
  /\ syncRuns > 0 /\ exportRuns > 0
  /\ syncNotices = << Notice("Missing Feedly access token", 0) >>
  /\ exportNotices = << Notice("Missing Feedly access token", 0) >>

\* C7: continuationTime changes only in the start of a sync that finds no
\* stored token, to the clock's value, and is stored when the first request
\* of that invocation is in flight; the lastSync a completed sync sets is the
\* start time of the invocation that began the window.
C7_ContinuationTimeOnlyAtFreshStart ==
  [][ /\ (settings'.continuationTime # settings.continuationTime
          \/ store'.continuationTime # store.continuationTime) =>
           /\ syncRuns' # syncRuns
           /\ store.continuationToken = Undefined
           /\ settings'.continuationTime = now
      /\ (syncRuns' # syncRuns /\ pc' = "awaitPage") =>
           /\ pending' = <<>>
           /\ store'.continuationTime = settings'.continuationTime
           /\ store'.continuationTime = windowStart'
      /\ settings'.lastSync # settings.lastSync =>
           settings'.lastSync = windowStart ]_vars

\* C7: a sync resumed with a stored token has completed, and lastSync is the
\* start time of the first invocation.
C7_ResumedSyncKeepsStartTime ==
  /\ SyncQuiescent /\ outcome = "done"
  /\ syncRuns = 2 /\ exportRuns = 0 /\ failures = 1 /\ stops = 0
  /\ Len(merged) > PageSize
  /\ store.lastSync = windowStart
  /\ windowStart = FirstNow

TitleKey(title) ==
  SelectSeq(title, LAMBDA c : c \notin {"*", "\"", "/", "\\", "<", ">", ":", "|", "?"})

MergedAnnotations == { journal[merged[k]] : k \in 1..Len(merged) }

KeyPath(a) == <<DefaultFolder, "/">> \o TitleKey(a.title) \o <<".md">>

FirstMerged(p) ==
  journal[merged[CHOOSE k \in 1..Len(merged) :
                   /\ KeyPath(journal[merged[k]]) = p
                   /\ \A h \in 1..(k - 1) : KeyPath(journal[merged[h]]) # p]]

IsPrefix(a, b) == Len(a) <= Len(b) /\ SubSeq(b, 1, Len(a)) = a

C10_DocumentsAppendOnly ==
  [][ \A p \in DOMAIN docs :
        p \in DOMAIN docs' /\ IsPrefix(docs[p], docs'[p]) ]_vars

\* C10: an annotation was appended to a document that held one already.
C10_SecondAppend ==
  \E p \in DOMAIN docs :
    \E a, b \in MergedAnnotations :
      /\ a.id # b.id /\ KeyPath(a) = p /\ KeyPath(b) = p
      /\ getAppendContent(a) # <<>> /\ getAppendContent(b) # <<>>
      /\ Len(docs[p]) >= Len(getInitialContent(FirstMerged(p)))
                         + Len(getAppendContent(a)) + Len(getAppendContent(b))

\* The lines of a text: its pieces between line breaks.
RECURSIVE Lines(_)
Lines(text) ==
  IF \A k \in 1..Len(text) : text[k] # "\n" THEN << text >>
  ELSE LET k == CHOOSE h \in 1..Len(text) :
                  text[h] = "\n" /\ \A g \in 1..(h - 1) : text[g] # "\n"
       IN  << SubSeq(text, 1, k - 1) >> \o Lines(SubSeq(text, k + 1, Len(text)))

\* quote is the blockquote of text: each line of the text after "> ", and a
\* line holding ">" alone between two of them.
IsBlockquoteOf(quote, text) ==
  LET q == Lines(quote)
      t == Lines(text)
  IN  /\ Len(q) = 2 * Len(t) - 1
      /\ \A k \in 1..Len(t) : q[2 * k - 1] = <<">", " ">> \o t[k]
      /\ \A k \in 1..(Len(t) - 1) : q[2 * k] = <<">">>
      /\ \A k \in 1..Len(q) : q[k] # <<>> /\ q[k][1] = ">"

\* Highlight texts of up to three characters, line breaks among them.
HighlightTexts ==
  UNION { [1..n -> {"x", "\n"}] : n \in 0..3 }

\* The entry merged by a step that merges one, and the text the step added
\* to the entry's document.
StepEntry == journal[merged'[Len(merged')]]

StepAdded ==
  LET p   == KeyPath(StepEntry)
      old == IF p \in DOMAIN docs THEN docs[p] ELSE getInitialContent(StepEntry)
  IN  SubSeq(docs'[p], Len(old) + 1, Len(docs'[p]))

\* C11: merging an entry with a highlight appends two line breaks and the
\* blockquote of the highlight text, every line of it starting with ">", and
\* nothing of the entry's comment; at every merge the same holds of
\* getAppendContent for every highlight text.
C11_HighlightAppendedAsBlockquote ==
  [][ merged' # merged =>
        /\ StepEntry.hasHighlight =>
             /\ SubSeq(StepAdded, 1, 2) = <<"\n", "\n">>
             /\ IsBlockquoteOf(SubSeq(StepAdded, 3, Len(StepAdded)),
                               StepEntry.highlightText)
             /\ \A k \in 1..Len(StepAdded) :
                   \A c \in 1..Len(StepEntry.comment) :
                     StepAdded[k] # StepEntry.comment[c]
        /\ \A text \in HighlightTexts :
             LET added == getAppendContent([hasHighlight |-> TRUE,
                                            highlightText |-> text,
                                            comment |-> <<"c">>])
             IN  /\ SubSeq(added, 1, 2) = <<"\n", "\n">>
                 /\ IsBlockquoteOf(SubSeq(added, 3, Len(added)), text) ]_vars

\* C11: the highlight "x", line break, "y" and the highlight of an entry that
\* also has a comment are both in the entry's document, the comment is not.
C11_TwoHighlightsMerged ==
  /\ merged = <<1, 2, 3, 4>>
  /\ LET d == docs[KeyPath(journal[1])]
     IN  /\ \E k \in 1..Len(d) :
              SubSeq(d, k, k + 10) =
                <<"\n", "\n", ">", " ", "x", "\n", ">", "\n", ">", " ", "y">>
         /\ SubSeq(d, Len(d) - 4, Len(d)) = <<"\n", "\n", ">", " ", "z">>
         /\ \A k \in 1..Len(d) : d[k] # "d"

\* C12: merging an entry with neither a highlight nor a comment leaves an
\* existing document as it is and creates a missing one with the frontmatter
\* alone.
C12_NothingToAppend ==
  [][ (merged' # merged /\ ~StepEntry.hasHighlight /\ StepEntry.comment = <<>>) =>
        LET p == KeyPath(StepEntry)
        IN  /\ p \in DOMAIN docs => docs'[p] = docs[p]
            /\ p \notin DOMAIN docs =>
                  /\ docs'[p] = getInitialContent(StepEntry)
                  /\ docs'[p][1] = "---"
                  /\ SubSeq(docs'[p], Len(docs'[p]) - 1, Len(docs'[p]))
                       = <<"---", "\n">>
            /\ \A o \in DOMAIN docs \ {p} : docs'[o] = docs[o] ]_vars

\* C12: the entry with neither was merged and its document is the
\* frontmatter.
C12_FrontmatterOnlyDocument ==
  /\ 3 \in { merged[k] : k \in 1..Len(merged) }
  /\ ~journal[3].hasHighlight /\ journal[3].comment = <<>>
  /\ docs[KeyPath(journal[3])] = getInitialContent(journal[3])

\* A step in which a request of the export fails or is answered without
\* items (a failed request of the sync ends the sync and changes pc).
ExportRequestFails == failures' # failures /\ pc' = pc /\ epc # "idle"

\* C13: a failure of a request of the export ends the command in that step:
\* the request is not sent again and no archive is written.
C13_ExportFailureAborts ==
  [][ ExportRequestFails =>
        /\ epc' = "idle"
        /\ exportRequests' = exportRequests
        /\ artifacts' = artifacts ]_vars

\* C13, the failures on which the code does end the export: 401, 429, an
\* answer without items and a failed request of the saved articles.
C13_ListedFailuresAbort ==
  [][ (ExportRequestFails /\ exportRequests' = exportRequests) =>
        (epc' = "idle" /\ artifacts' = artifacts) ]_vars

\* C13: the only export has seen its stream request fail and has written its
\* archive nevertheless.
C13_ArchiveAfterFailedRequest ==
  /\ exportRuns = 1 /\ syncRuns = 0 /\ stops = 0
  /\ failures = 1
  /\ epc = "idle"
  /\ artifacts # {}

\* The body the specification gives an article: the first of rendered
\* content, summary and full content that is present and not empty.
FirstNonEmpty(a) ==
  IF a.content \notin {Absent, ""} THEN a.content
  ELSE IF a.summary \notin {Absent, ""} THEN a.summary
  ELSE IF a.fullContent \notin {Absent, ""} THEN a.fullContent
  ELSE ""

\* C14: the archive written by an export holds, in order, a section for each
\* collected article whose first non-empty field exists, with that field as
\* its body, and no other section.
C14_BodyIsFirstNonEmpty ==
  [][ artifacts' # artifacts =>
        LET all  == articles \o SavedArticles
            kept == SelectSeq(all, LAMBDA a : FirstNonEmpty(a) # "")
        IN  \E f \in artifacts' \ artifacts :
              f.sections = [k \in 1..Len(kept) |->
                              [id |-> kept[k].id, body |-> FirstNonEmpty(kept[k])]] ]_vars

\* C14, where no article has an empty string for a field that comes before a
\* non-empty one.
C14_WithoutEmptyStrings ==
  [][ (artifacts' # artifacts
       /\ \A k \in 1..Len(articles) : articles[k].content # "") =>
        LET all  == articles \o SavedArticles
            kept == SelectSeq(all, LAMBDA a : FirstNonEmpty(a) # "")
        IN  \E f \in artifacts' \ artifacts :
              f.sections = [k \in 1..Len(kept) |->
                              [id |-> kept[k].id, body |-> FirstNonEmpty(kept[k])]] ]_vars

\* C14: an archive holds the article with an empty rendered content and a
\* summary, its body empty.
C14_EmptyContentPackaged ==
  \E f \in artifacts :
    \E k \in 1..Len(f.sections) :
      /\ Article(f.sections[k].id).content = ""
      /\ Article(f.sections[k].id).summary = "summary"
      /\ f.sections[k].body = ""

BookFolders == {"META-INF", "OEBPF", "OEBPF/css", "OEBPF/content", "OEBPF/images"}

\* C15: in every archive built the first entry is the mimetype file, stored
\* without compression; every other generated file is the entry of exactly
\* one path, its folder, a slash and its name; and every entry is the
\* mimetype, one of the five folders or a generated file.
C15_MimetypeFirstFilesInFolders ==
  epubZip # <<>> =>
    /\ epubZip[1] = [path |-> << "mimetype" >>, compression |-> "STORE"]
    /\ \A k \in 2..Len(epubZip) : epubZip[k].path # << "mimetype" >>
    /\ \A g \in 1..Len(epubFiles) :
         epubFiles[g].name # "mimetype" =>
           /\ epubFiles[g].folder \in BookFolders
           /\ Cardinality({ k \in 1..Len(epubZip) :
                  epubZip[k].path =
                    << epubFiles[g].folder, "/", epubFiles[g].name >> }) = 1
    /\ \A k \in 2..Len(epubZip) :
         \/ \E d \in BookFolders : epubZip[k].path = << d, "/" >>
         \/ \E g \in 1..Len(epubFiles) :
              epubZip[k].path = << epubFiles[g].folder, "/", epubFiles[g].name >>

\* C15: an archive was built from a list with the mimetype file last and a
\* file in each of the five folders.
C15_MimetypeGeneratedLast ==
  /\ epubZip # <<>>
  /\ epubFiles[Len(epubFiles)].name = "mimetype"
  /\ { epubFiles[g].folder : g \in 1..(Len(epubFiles) - 1) } = BookFolders

\* The files a cleanup is to trash, by name alone.
IsFeedlySyncEpub(file) ==
  file.extension = "epub" /\ Len(file.basename) > 0 /\ file.basename[1] = "FeedlySync"

Range(seq) == { seq[k] : k \in 1..Len(seq) }

\* C16: a cleanup sets out to trash exactly the epub files of the vault whose
\* base name starts with FeedlySync; each of its steps trashes one of them
\* and it ends when none is left; no step of it changes a document, another
\* file or the checkpoint.
C16_CleanupTrashesFeedlySyncEpubs ==
  [][ /\ cleanupRuns' # cleanupRuns =>
           /\ Range(cqueue') =
                { f \in getFiles(docs, artifacts, trash) : IsFeedlySyncEpub(f) }
           /\ Len(cqueue') = Cardinality(Range(cqueue'))
           /\ (cpc' = "idle") = (cqueue' = <<>>)
           /\ trash' = trash
      /\ trash' # trash =>
           /\ \E f \in Range(cqueue) :
                /\ IsFeedlySyncEpub(f)
                /\ trash' = trash \cup {f}
                /\ Range(cqueue') = Range(cqueue) \ {f}
           /\ (cpc' = "idle") = (cqueue' = <<>>)
      /\ (cleanupRuns' # cleanupRuns \/ trash' # trash) =>
           /\ docs' = docs /\ folders' = folders /\ artifacts' = artifacts
           /\ store' = store /\ pending' = pending /\ settings' = settings ]_vars

\* C16: a cleanup has ended with the archive of an export and the user's two
\* FeedlySync epub files in the trash and nothing else.
C16_ArchiveAndOldEpubsTrashed ==
  /\ cpc = "idle" /\ cleanupRuns = 1 /\ stops = 0
  /\ \E f \in artifacts :
       trash = { ArtifactFile(f),
                 VaultFile(<< "FeedlySync", "-", "old" >>, "epub"),
                 VaultFile(<< "FeedlySync", "X" >>, "epub") }

\* The texts appended for the annotations ids whose document is p, one after
\* the other.
RECURSIVE AppendedTexts(_, _)
AppendedTexts(ids, p) ==
  IF ids = <<>> THEN <<>>
  ELSE (IF KeyPath(journal[Head(ids)]) = p
        THEN getAppendContent(journal[Head(ids)]) ELSE <<>>)
       \o AppendedTexts(Tail(ids), p)

\* C17: while a page is merged, the entries merged from it are its first
\* entries in the order of the response, and a step merges one entry; every
\* document is its frontmatter followed by the texts of its annotations in
\* the order in which they were merged, over all invocations.
C17_DocumentOrderIsArrivalOrder ==
  [][ /\ Len(merged') <= Len(merged) + 1
      /\ merged' # merged => merged' = Append(merged, page[idx].id)
      /\ pc' = "merging" =>
           /\ idx' - 1 <= Len(merged')
           /\ SubSeq(merged', Len(merged') - (idx' - 1) + 1, Len(merged'))
                = Ids(SubSeq(page', 1, idx' - 1))
      /\ \A p \in DOMAIN docs' :
           docs'[p] = getInitialContent(FirstMerged(p)') \o AppendedTexts(merged', p) ]_vars

\* C17: a document holds three annotations, two of the first page and one of
\* the second, which a resumed invocation merged after a failed request.
C17_ThreeAnnotationsAcrossResume ==
  /\ merged = <<1, 2, 3, 4>>
  /\ syncRuns = 2 /\ failures = 1
  /\ docs[KeyPath(journal[1])] =
       getInitialContent(journal[1]) \o getAppendContent(journal[1])
       \o getAppendContent(journal[2]) \o getAppendContent(journal[4])

\* C18: a request of the sync is in flight, or its callback has returned,
\* only when every checkpoint write it issued is in the store.
C18_CheckpointStoredBeforeNextRequest ==
  pc \in {"awaitPage", "idle"} => pending = <<>>

\* C18: the request for the second page is in flight and the token of the
\* first page is not in the store yet.
C18_RequestBeforeTokenStored ==
  /\ pc = "awaitPage" /\ req.sent /\ req.continuation = PageSize
  /\ pending = << settings >>
  /\ settings.continuationToken = PageSize
  /\ store.continuationToken = Undefined

\* C19: the step in which a command halts, other than by a stop of the
\* process, adds exactly one notice.
C19_OneNoticePerHalt ==
  [][ stops' = stops =>
        /\ (pc # "idle" /\ pc' = "idle") =>
             Len(syncNotices') = Len(syncNotices) + 1
        /\ (syncRuns' # syncRuns /\ pc' = "idle") => Len(syncNotices') = 1
        /\ (epc # "idle" /\ epc' = "idle") =>
             Len(exportNotices') = Len(exportNotices) + 1
        /\ (exportRuns' # exportRuns /\ epc' = "idle") =>
             Len(exportNotices') = 1 ]_vars

\* C19, the halts that do show one notice: missing credentials in both
\* commands, and 401 and 429 in the export.
C19_OneNoticeForConfigAndExportAuth ==
  [][ stops' = stops =>
        /\ (syncRuns' # syncRuns /\ pc' = "idle") => Len(syncNotices') = 1
        /\ (exportRuns' # exportRuns /\ epc' = "idle") =>
             Len(exportNotices') = 1
        /\ (epc # "idle" /\ epc' = "idle" /\ failures' # failures
            /\ exportNotices' # exportNotices) =>
             Len(exportNotices') = Len(exportNotices) + 1 ]_vars

\* C19: a sync has completed with two notices for its end, and an export has
\* ended on an answer without items or a failed request with none.
C19_TwoNoticesAndNone ==
  /\ pc = "idle" /\ outcome = "done" /\ syncRuns = 1
  /\ syncNotices = << Notice("Beginning to download Feedly annotations", 0),
                      Notice("All Feedly annotations synced", 0),
                      Notice("Synced annotations", entryCounter) >>
  /\ epc = "idle" /\ exportRuns = 1 /\ failures = 1 /\ stops = 0
  /\ exportRequests > 0
  /\ exportNotices = <<>>

\* A step of the export: one that changes the export's locals, notices,
\* requests or archives while the process keeps running.
ExportStep ==
  /\ stops' = stops
  /\ \/ exportVars' # exportVars
     \/ exportRuns' # exportRuns

\* C20: a step of the export changes neither the stored record, the queue of
\* writes, the plugin's record nor a document, and the first request of every
\* export carries no continuation value and starts an empty list.
C20_ExportKeepsCheckpointAndDocuments ==
  [][ ExportStep =>
        /\ store' = store /\ pending' = pending /\ settings' = settings
        /\ docs' = docs /\ folders' = folders
        /\ exportRuns' # exportRuns =>
             (econtinuation' = Undefined /\ articles' = <<>>) ]_vars

\* C20: the first request of a second export is in flight, after an export
\* that saw a request fail and wrote no archive.
C20_ExportAfterFailedExport ==
  /\ exportRuns = 2 /\ failures = 1 /\ artifacts = {}
  /\ epc = "awaitStream" /\ econtinuation = Undefined /\ exportRequests = 1

\* C21: where every full page carries a continuation value, a sync stopped at
\* any point, the middle of a page included, and resumed appends no annotation
\* twice, and once the resumed sync has completed every annotation of the
\* journal is merged exactly once.
C21_StoppedSyncMergesNoEntryTwice ==
  withCont =>
    /\ \A i \in 1..Len(journal) : Count(merged, i) <= 1
    /\ (SyncQuiescent /\ outcome = "done") =>
         \A i \in 1..Len(journal) : Count(merged, i) = 1

\* C21: the process was stopped while a page was being merged, no request
\* failed, the resumed sync has completed, and an annotation appended before
\* the stop was appended again.
C21_MergedAgainAfterMidPageStop ==
  /\ withCont /\ midStop /\ failures = 0 /\ stops = 1
  /\ SyncQuiescent /\ outcome = "done" /\ syncRuns = 2
  /\ \E i \in 1..Len(journal) : Count(merged, i) = 2
  /\ \A i \in 1..Len(journal) : Count(merged, i) >= 1

\* A step in which a stream request of the export is answered with a page,
\* and the items of that page.
ExportPageStep ==
  /\ epc = "awaitStream"
  /\ epc' = "awaitTags" \/ (epc' = "awaitStream" /\ articles' # articles)

PageItems == SubSeq(articles', Len(articles) + 1, Len(articles'))

\* C22: each page the export receives extends the collected list, which stays
\* the pages of the stream in service order, no article twice; phase 1 ends
\* with the first page shorter than the page size and not before, and the
\* list then holds every article of the stream exactly once.
C22_PhaseOneCollectsStreamOnce ==
  [][ ExportPageStep =>
        /\ IsPrefix(articles, articles')
        /\ IsPrefix(articles', stream)
        /\ epc' = "awaitTags" <=> Len(PageItems) < ExportPageSize
        /\ epc' = "awaitTags" => articles' = stream ]_vars

\* C22, where the service sends a continuation value with every full page.
C22_WithContinuationOnFullPages ==
  [][ (withCont /\ ExportPageStep) =>
        /\ IsPrefix(articles, articles')
        /\ IsPrefix(articles', stream)
        /\ epc' = "awaitTags" <=> Len(PageItems) < ExportPageSize
        /\ epc' = "awaitTags" => articles' = stream ]_vars

\* C22: no request of the export has failed, the stream holds exactly one
\* full page, and the collected list holds that page twice.
C22_FirstPageCollectedTwice ==
  /\ epc = "awaitStream" /\ failures = 0 /\ stops = 0
  /\ Len(stream) = ExportPageSize
  /\ articles = stream \o stream

\* C22: phase 1 has ended after a full page and a shorter one, the second
\* requested with the continuation of the first.
C22_TwoPagesCollected ==
  /\ epc = "awaitTags" /\ withCont
  /\ Len(stream) > ExportPageSize /\ articles = stream

\* C23: within one invocation the first page of the window is requested
\* once: a request without a continuation value is the invocation's first
\* request, never one the loop sends after a page.
C23_FirstPageRequestedOnce ==
  (req.sent /\ req.continuation = Undefined) => firstReq

\* C23, where the service sends a continuation value with every full page:
\* under SpecLive every running sync invocation reaches a terminal state.
C23_TerminatesWithContinuation ==
  (withCont /\ pc # "idle") ~> (pc = "idle")

\* C23: a first sync that nothing interrupted has merged a journal of exactly
\* one full page, answered without a continuation value, and its loop has
\* the request for the first page in flight again.
C23_FirstPageRequestedAgain ==
  /\ ~withCont /\ syncRuns = 1 /\ failures = 0 /\ stops = 0
  /\ Len(journal) = PageSize /\ merged = Ids(journal)
  /\ pc = "awaitPage" /\ ~firstReq
  /\ req = PageRequest(settings, Undefined)

\* C24: a step of the settings tab, opening it or editing one of its fields,
\* leaves the stored lastSync, continuationTime and continuationToken as
\* they are.
C24_TabEditKeepsCheckpoint ==
  [][ tabSteps' # tabSteps => CheckpointOf(store') = CheckpointOf(store) ]_vars

\* C24, for an edit in a tab whose record holds the stored checkpoint: no
\* sync has written one since the tab was opened.
C24_EditInFreshTabKeepsCheckpoint ==
  [][ (tabSteps' # tabSteps /\ CheckpointOf(tabSettings) = CheckpointOf(store))
        => CheckpointOf(store') = CheckpointOf(store) ]_vars

\* C24: the tab was opened before a sync that completed and merged
\* annotations; the user id was then edited, and the stored record holds the
\* new user id and no lastSync, while the plugin's record holds the lastSync
\* of the completed sync.
C24_CheckpointReplacedByTab ==
  /\ tabOpen /\ tabSteps = 2 /\ store.userId = "id2"
  /\ SyncQuiescent /\ outcome = "done" /\ merged # <<>>
  /\ settings.lastSync = windowStart /\ windowStart # Undefined
  /\ store.lastSync = Undefined

\* C25: where every full page carries a continuation value, over syncs that
\* run to their end while annotations are created on the service, no
\* annotation is appended twice.
C25_EachAnnotationAppendedOnce ==
  withCont => \A i \in 1..Len(journal) : Count(merged, i) <= 1

\* C25, for the annotations created before the sync that returned them took
\* its continuationTime.
C25_OlderAnnotationsAppendedOnce ==
  withCont =>
    \A i \in 1..Len(journal) :
      journal[i].created < FirstNow => Count(merged, i) <= 1

\* C25: an annotation created while the first sync was in flight was merged
\* by that sync and, being newer than its continuationTime, again by the
\* second sync, which has completed.
C25_CreatedMidSyncMergedTwice ==
  /\ withCont /\ syncRuns = 2 /\ SyncQuiescent /\ outcome = "done"
  /\ \E i \in 1..Len(journal) :
       /\ journal[i].created > FirstNow
       /\ journal[i].created < store.lastSync
       /\ Count(merged, i) = 2

====
